---- MODULE Spec2Model ----
(***************************************************************************)
(* Model of src/app.py: the dissociation service (term and spatial         *)
(* set-difference endpoints), its coordinate parser and its lazily         *)
(* initialised storage engine.                                             *)
(*                                                                         *)
(* Strings are sequences of one-character strings, so that split('_'),     *)
(* lower() and float() are computed character by character.  A float is a  *)
(* record [k, v]: k = "fin" with v the value in tenths, k = "inf" with     *)
(* v the sign, k = "nan"; float() failing is the record k = "ValueError".  *)
(***************************************************************************)
EXTENDS Integers, Sequences, FiniteSets, TLC

\* ------------------------------------------------------------------------
\* Bounds of the model
\* ------------------------------------------------------------------------
\* most '_'-separated parts of a token drawn for the parser
MaxParts == 4
\* worker threads serving requests concurrently (SpecConc)
NThreads == 2
\* studies of the freely tagged part of a term corpus
TermStudies == 3
\* studies of the freely placed part of a coordinate corpus
CoordStudies == 2
\* studies of the bulk block of a large corpus beyond the result cap
BulkExtra == 2
\* rotations of the ascending and of the descending order the storage
\* engine may return rows in
MaxRot == 2

\* ------------------------------------------------------------------------
\* Python string primitives
\* ------------------------------------------------------------------------
Digits == {"0", "1", "2", "3", "4", "5", "6", "7", "8", "9"}

DigitVal(c) ==
    CASE c = "0" -> 0 [] c = "1" -> 1 [] c = "2" -> 2 [] c = "3" -> 3
      [] c = "4" -> 4 [] c = "5" -> 5 [] c = "6" -> 6 [] c = "7" -> 7
      [] c = "8" -> 8 [] c = "9" -> 9

UpperLetters ==
    <<"A", "B", "C", "D", "E", "F", "G", "H", "I", "J", "K", "L", "M",
      "N", "O", "P", "Q", "R", "S", "T", "U", "V", "W", "X", "Y", "Z">>

LowerLetters ==
    <<"a", "b", "c", "d", "e", "f", "g", "h", "i", "j", "k", "l", "m",
      "n", "o", "p", "q", "r", "s", "t", "u", "v", "w", "x", "y", "z">>

\* str.lower() on one character
LowerChar(c) ==
    IF \E i \in DOMAIN UpperLetters : UpperLetters[i] = c
    THEN LowerLetters[CHOOSE i \in DOMAIN UpperLetters : UpperLetters[i] = c]
    ELSE c

\* str.lower()
Lower(s) == [i \in DOMAIN s |-> LowerChar(s[i])]

RECURSIVE Split(_)
\* str.split('_'): always at least one part, empty parts kept
Split(s) ==
    IF \A i \in DOMAIN s : s[i] # "_"
    THEN <<s>>
    ELSE LET i == CHOOSE j \in DOMAIN s :
                      s[j] = "_" /\ \A k \in 1..(j - 1) : s[k] # "_"
         IN  <<SubSeq(s, 1, i - 1)>> \o Split(SubSeq(s, i + 1, Len(s)))

RECURSIVE DecVal(_)
\* value of a run of decimal digits
DecVal(ds) ==
    IF ds = <<>> THEN 0
    ELSE DecVal(SubSeq(ds, 1, Len(ds) - 1)) * 10 + DigitVal(ds[Len(ds)])

ValueError == [k |-> "ValueError", v |-> 0]
NaN == [k |-> "nan", v |-> 0]
Inf(sgn) == [k |-> "inf", v |-> sgn]
Fin(tenths) == [k |-> "fin", v |-> tenths]

\* float(s) for s over digits, sign, '.', letters: an optional sign, then
\* 'nan' or 'inf' in any case, or digits with at most one '.', at least one
\* digit.  The value keeps one fractional digit (tenths).
PyFloat(s) ==
    LET signed == Len(s) > 0 /\ s[1] \in {"+", "-"}
        sgn    == IF Len(s) > 0 /\ s[1] = "-" THEN -1 ELSE 1
        body   == IF signed THEN Tail(s) ELSE s
        word   == Lower(body)
        dots   == {i \in DOMAIN body : body[i] = "."}
        dot    == IF dots = {} THEN Len(body) + 1 ELSE CHOOSE i \in dots : TRUE
        ipart  == SubSeq(body, 1, dot - 1)
        fpart  == SubSeq(body, dot + 1, Len(body))
    IN  IF word = <<"n", "a", "n">> THEN NaN
        ELSE IF word = <<"i", "n", "f">> THEN Inf(sgn)
        ELSE IF /\ \A i \in DOMAIN body : body[i] \in Digits \cup {"."}
                /\ Cardinality(dots) <= 1
                /\ Len(ipart) + Len(fpart) >= 1
             THEN Fin(sgn * (DecVal(ipart) * 10
                             + (IF fpart = <<>> THEN 0 ELSE DigitVal(fpart[1]))))
             ELSE ValueError

\* Python's None
None == <<>>

\* parse_coords: the list comprehension raises ValueError at the first part
\* float() rejects, which the except clause turns into None
parse_coords(coords_str) ==
    LET strs  == Split(coords_str)
        parts == [i \in DOMAIN strs |-> PyFloat(strs[i])]
    IN  IF \E i \in DOMAIN parts : parts[i] = ValueError THEN None
        ELSE IF Len(parts) = 3 THEN parts
        ELSE None

\* ------------------------------------------------------------------------
\* The storage collaborator: tables, predicates, EXCEPT and LIMIT
\* ------------------------------------------------------------------------
\* LIMIT 250 of both SQL statements
LIMIT == 250

Max(a, b) == IF a >= b THEN a ELSE b

\* the largest study id of any modelled corpus
MaxStudyId == Max(TermStudies, CoordStudies) + LIMIT + BulkExtra

Min(a, b) == IF a <= b THEN a ELSE b

\* SELECT study_id FROM ns.annotations_terms WHERE term = :term
\* (one id per matching row; the same id once per contrast)
SelectTerm(table, term) == {r \in table : r.term = term}

\* ST_DWithin(geom, ST_MakePoint(x, y, z), radius).  The planar metric
\* ignores z, the spatial one does not; which one the column uses is the
\* store's business, so both are modelled.  A nan operand compares false,
\* an infinite radius reaches every finite point.
ST_DWithin(row, p, radius, metric) ==
    IF \E i \in 1..3 : p[i].k # "fin" THEN FALSE
    ELSE IF radius.k = "nan" THEN FALSE
    ELSE IF radius.k = "inf" THEN radius.v > 0
    ELSE LET dx == row.x - p[1].v
             dy == row.y - p[2].v
             dz == IF metric = "3D" THEN row.z - p[3].v ELSE 0
         IN  /\ radius.v >= 0
             /\ dx * dx + dy * dy + dz * dz <= radius.v * radius.v

\* SELECT study_id FROM ns.coordinates WHERE ST_DWithin(geom, :p, :radius)
SelectNear(table, p, radius, metric) ==
    {r \in table : ST_DWithin(r, p, radius, metric)}

\* variant: UNION written for EXCEPT
ExceptAsUnion(left, right) ==
    {r.study_id : r \in left} \cup {r.study_id : r \in right}

\* left EXCEPT right: the distinct study ids of left that right lacks
Except(left, right) ==
    {r.study_id : r \in left} \ {r.study_id : r \in right}

\* the ids of S in ascending order
Asc(S) == SelectSeq([i \in 1..MaxStudyId |-> i], LAMBDA i : i \in S)

Reverse(q) == [i \in DOMAIN q |-> q[Len(q) + 1 - i]]

Rot(q, k) == SubSeq(q, k + 1, Len(q)) \o SubSeq(q, 1, k)

\* the orders the engine may return the distinct ids of S in: no ORDER BY,
\* so any of the modelled enumerations
EngineOrders(S) ==
    LET a == Asc(S)
    IN  {Rot(a, k) : k \in 0..(Min(Len(a), MaxRot) - 1)}
        \cup {Rot(Reverse(a), k) : k \in 0..(Min(Len(a), MaxRot) - 1)}
        \cup {a}

\* variant: the statement without its LIMIT
NoLimit(rows) == rows

\* LIMIT 250 on a returned row sequence
Limit(rows) == SubSeq(rows, 1, Min(Len(rows), LIMIT))

\* the row sequences a successful "... EXCEPT ... LIMIT 250" may return
QueryResults(ids) == {Limit(o) : o \in EngineOrders(ids)}

\* ------------------------------------------------------------------------
\* Corpora
\* ------------------------------------------------------------------------
TagTerms == {"fear", "reward"}

\* ns.annotations_terms: studies 1..TermStudies tagged by tags, every row
\* once per contrast, then bulk further studies tagged "fear"
TermCorpus(tags, contrasts, bulk) ==
    {r \in [study_id : 1..TermStudies, contrast_id : contrasts,
            term : TagTerms] : r.term \in tags[r.study_id]}
    \cup {[study_id |-> TermStudies + i, contrast_id |-> 1, term |-> "fear"] :
            i \in 1..bulk}

\* activation sites, in tenths of a millimetre
SiteA == [x |-> 0, y |-> 0, z |-> 0]
SiteB == [x |-> 100, y |-> 0, z |-> 0]
SiteC == [x |-> 0, y |-> 0, z |-> 90]
Sites == {SiteA, SiteB, SiteC}

\* ns.coordinates: studies 1..CoordStudies at the sites of at, then bulk
\* further studies at SiteA
CoordCorpus(at, bulk) ==
    {[study_id |-> q.s, x |-> q.g.x, y |-> q.g.y, z |-> q.g.z] :
        q \in {w \in [s : 1..CoordStudies, g : Sites] : w.g \in at[w.s]}}
    \cup {[study_id |-> CoordStudies + i, x |-> SiteA.x, y |-> SiteA.y,
           z |-> SiteA.z] : i \in 1..bulk}

BulkSizes == {LIMIT - 1, LIMIT + BulkExtra}

\* small term corpora, and large ones whose first study alone is free
TermCorpora ==
    {TermCorpus(tags, cs, 0) :
        tags \in [1..TermStudies -> SUBSET TagTerms], cs \in {{1}, {1, 2}}}
    \cup {TermCorpus([i \in 1..TermStudies |-> IF i = 1 THEN tg ELSE {}],
                     {1}, b) : tg \in SUBSET TagTerms, b \in BulkSizes}

\* coordinate corpora with every row in the plane z = 0: small ones over
\* SiteA and SiteB, and large ones whose first study alone is free
PlanarCorpora ==
    {CoordCorpus(at, 0) : at \in [1..CoordStudies -> SUBSET {SiteA, SiteB}]}
    \cup {CoordCorpus([i \in 1..CoordStudies |-> IF i = 1 THEN g ELSE {}], b) :
            g \in SUBSET {SiteA, SiteB}, b \in BulkSizes}

\* coordinate corpora whose first study has a row off that plane
DeepCorpora ==
    {CoordCorpus([i \in 1..CoordStudies |->
                     IF i = 1 THEN g \cup {SiteC} ELSE {SiteA}], 0) :
        g \in SUBSET {SiteA, SiteB}}

\* the corpus of the spec's end-to-end term scenario, with two sites
ScenarioTerms ==
    TermCorpus([i \in 1..TermStudies |->
                   IF i = 1 THEN {"fear"} ELSE {"fear", "reward"}], {1}, 0)
ScenarioCoords ==
    CoordCorpus([i \in 1..CoordStudies |->
                    IF i = 1 THEN {SiteA} ELSE {SiteA, SiteB}], 0)

\* ------------------------------------------------------------------------
\* Requests
\* ------------------------------------------------------------------------
\* path parameters of the term endpoint: exact, case-sensitive strings
ReqTerms == {"fear", "reward", "Fear"}

Tok_0_0_0 == <<"0", "_", "0", "_", "0">>
Tok_10_0_0 == <<"1", "0", "_", "0", "_", "0">>
Tok_1_2_x == <<"1", "_", "2", "_", "x">>
Tok_nan_0_0 == <<"n", "a", "n", "_", "0", "_", "0">>

\* path parameters of the spatial endpoint
CoordTokens == {Tok_0_0_0, Tok_10_0_0, Tok_1_2_x, Tok_nan_0_0}

\* values of ?bidirectional=
BidirValues ==
    {<<"t", "r", "u", "e">>, <<"T", "R", "U", "E">>, <<"T", "r", "u", "e">>,
     <<"f", "a", "l", "s", "e">>}

\* values of ?radius=
RadiusValues == {<<"5">>, <<"x">>}

\* request.args: the query parameters present, by name
QueryStrings ==
    {<<>>}
    \cup {[radius |-> r] : r \in RadiusValues}
    \cup {[bidirectional |-> b] : b \in BidirValues}
    \cup {[radius |-> r, bidirectional |-> <<"t", "r", "u", "e">>] :
            r \in RadiusValues}

TermRequests == [term_a : ReqTerms, term_b : ReqTerms]

LocRequests ==
    [coords_a : CoordTokens, coords_b : CoordTokens, qs : QueryStrings]

\* request.args.get(key, default=...)
ArgsGet(qs, key, default) == IF key \in DOMAIN qs THEN qs[key] ELSE default

\* request.args.get(key, default=..., type=float): a value float() rejects
\* gives the default
ArgsGetFloat(qs, key, default) ==
    IF key \in DOMAIN qs /\ PyFloat(qs[key]) # ValueError
    THEN PyFloat(qs[key])
    ELSE default

\* variant: == "true" without .lower()
IsTrueExact(s) == s = <<"t", "r", "u", "e">>

\* .lower() == "true"
IsTrue(s) == Lower(s) = <<"t", "r", "u", "e">>

\* ------------------------------------------------------------------------
\* State
\* ------------------------------------------------------------------------
VARIABLES
    environ,            \* os.environ: DB_URL and DATABASE_URL ("" when unset)
    _engine,            \* the module global: 0 for None, else a handle
    engines,            \* URL of every handle create_engine has returned
    annotations_terms,  \* rows of ns.annotations_terms
    coordinates,        \* rows of ns.coordinates
    metric,             \* the metric of the store's ST_DWithin
    checked_out,        \* connections checked out of the pools
    pc,                 \* position of each worker thread in its handler
    args,               \* the view arguments and query string of its request
    locals,             \* the handler's local variables
    payload,            \* the dict dissociate_by_location builds
    response,           \* the (body, status) it returned
    conn,               \* connections it holds ("with engine.connect()")
    issued,             \* queries it has sent for the current request
    acquired,           \* connections it has acquired for the current request
    obtained,           \* get_engine calls it has made for the current request
    failure,            \* where the current request met a storage failure
    coords_str,         \* argument of a direct parse_coords call
    parsed              \* what that call returned

vars ==
    <<environ, _engine, engines, annotations_terms, coordinates, metric,
      checked_out, pc, args, locals, payload, response, conn, issued,
      acquired, obtained, failure, coords_str, parsed>>

Threads == 1..NThreads

\* _engine = None
NoEngine == 0

Unset == [k |-> "unset", v |-> 0]

NoLocals ==
    [radius |-> Unset, bidirectional |-> FALSE, p_a |-> None, p_b |-> None,
     engine |-> NoEngine, study_ids |-> <<>>, study_ids_ab |-> <<>>,
     study_ids_ba |-> <<>>]

NoResponse == [status |-> 0, body |-> <<>>]

PostgresUrl == "postgres://db/ns"
PostgresqlUrl == "postgresql://db/ns"
BogusUrl == "bogus"

\* db_url.startswith("postgres://") rewritten to "postgresql://"
NormalizeUrl(db_url) == IF db_url = PostgresUrl THEN PostgresqlUrl ELSE db_url

\* create_engine raises on a URL it cannot parse
CreateEngineOk(db_url) == db_url = PostgresqlUrl

Environs ==
    {[DB_URL |-> "", DATABASE_URL |-> ""],
     [DB_URL |-> PostgresUrl, DATABASE_URL |-> ""],
     [DB_URL |-> "", DATABASE_URL |-> PostgresqlUrl],
     [DB_URL |-> BogusUrl, DATABASE_URL |-> ""]}

\* os.getenv("DB_URL") or os.getenv("DATABASE_URL")
DbUrl(env) == IF env.DB_URL # "" THEN env.DB_URL ELSE env.DATABASE_URL

\* no direct call of parse_coords has returned
NotCalled == [returned |-> FALSE, value |-> None]

InitThreads ==
    /\ checked_out = 0
    /\ pc = [t \in Threads |-> "idle"]
    /\ args = [t \in Threads |-> [endpoint |-> "none"]]
    /\ locals = [t \in Threads |-> NoLocals]
    /\ payload = [t \in Threads |-> <<>>]
    /\ response = [t \in Threads |-> NoResponse]
    /\ conn = [t \in Threads |-> 0]
    /\ issued = [t \in Threads |-> 0]
    /\ acquired = [t \in Threads |-> 0]
    /\ obtained = [t \in Threads |-> 0]
    /\ failure = [t \in Threads |-> "none"]
    /\ parsed = NotCalled

\* a process that has not yet built its engine
ColdEngine ==
    /\ environ \in Environs
    /\ _engine = NoEngine
    /\ engines = <<>>

\* a process whose engine an earlier request has built
WarmEngine ==
    /\ environ \in {e \in Environs : CreateEngineOk(NormalizeUrl(DbUrl(e)))}
    /\ _engine = 1
    /\ engines = <<NormalizeUrl(DbUrl(environ))>>

\* one worker: every term corpus and every coordinate corpus on a warm
\* process (either metric where a row lies off the plane z = 0, on which
\* the two agree), and the scenario corpus on every cold one
Init ==
    /\ InitThreads
    /\ coords_str = <<>>
    /\ \/ /\ annotations_terms \in TermCorpora
          /\ coordinates = ScenarioCoords
          /\ metric = "3D"
          /\ WarmEngine
          /\ DbUrl(environ) = PostgresUrl
       \/ /\ annotations_terms = ScenarioTerms
          /\ \/ coordinates \in PlanarCorpora /\ metric = "3D"
             \/ coordinates \in DeepCorpora /\ metric \in {"2D", "3D"}
          /\ WarmEngine
          /\ DbUrl(environ) = PostgresUrl
       \/ /\ annotations_terms = ScenarioTerms
          /\ coordinates = ScenarioCoords
          /\ metric = "3D"
          /\ ColdEngine

\* ------------------------------------------------------------------------
\* Handlers
\* ------------------------------------------------------------------------
corpus == <<environ, annotations_terms, coordinates, metric>>
direct == <<coords_str, parsed>>

DefaultRadius == Fin(100)
DefaultBidirectional == <<"f", "a", "l", "s", "e">>

\* the body of the 500 response each except clause builds
ErrorBody(endpoint, exc) ==
    IF endpoint = "terms" THEN [error |-> "Database error"]
    ELSE IF exc = "OperationalError"
         THEN [error |-> "Database connection failed"]
         ELSE [error |-> "Query failed"]

\* variant: a failed B -> A query answered with the payload built so far
RaisePartial(t, exc, stage) ==
    /\ response' = [response EXCEPT ![t] =
                       IF stage = "query_ba"
                       THEN [status |-> 200, body |-> payload[t]]
                       ELSE [status |-> 500,
                             body |-> ErrorBody(args[t].endpoint, exc)]]
    /\ checked_out' = checked_out - conn[t]
    /\ conn' = [conn EXCEPT ![t] = 0]
    /\ failure' = [failure EXCEPT ![t] = stage]
    /\ pc' = [pc EXCEPT ![t] = "done"]

\* variant: the connection not released when the block is left by an
\* exception
RaiseLeak(t, exc, stage) ==
    /\ response' = [response EXCEPT ![t] =
                       [status |-> 500, body |-> ErrorBody(args[t].endpoint, exc)]]
    /\ UNCHANGED <<checked_out, conn>>
    /\ failure' = [failure EXCEPT ![t] = stage]
    /\ pc' = [pc EXCEPT ![t] = "done"]

\* an exception raised inside the try block at stage: the with block, if
\* entered, releases the connection, and the except clause answers 500
Raise(t, exc, stage) ==
    /\ response' = [response EXCEPT ![t] =
                       [status |-> 500, body |-> ErrorBody(args[t].endpoint, exc)]]
    /\ checked_out' = checked_out - conn[t]
    /\ conn' = [conn EXCEPT ![t] = 0]
    /\ failure' = [failure EXCEPT ![t] = stage]
    /\ pc' = [pc EXCEPT ![t] = "done"]

\* GET /dissociate/terms/<term_a>/<term_b>
ReceiveTerm(t, R) ==
    /\ pc[t] = "idle"
    /\ \E r \in R :
          args' = [args EXCEPT ![t] =
                      [endpoint |-> "terms", term_a |-> r.term_a,
                       term_b |-> r.term_b]]
    /\ pc' = [pc EXCEPT ![t] = "get_engine"]
    /\ UNCHANGED <<corpus, _engine, engines, checked_out, locals, payload,
                   response, conn, issued, acquired, obtained, failure, direct>>

\* variant: "and" written for "or"
InvalidCoordsBoth(p_a, p_b) == p_a = None /\ p_b = None

\* "if p_a is None or p_b is None"
InvalidCoords(p_a, p_b) == p_a = None \/ p_b = None

\* GET /dissociate/locations/<coords_a>/<coords_b>: the query parameters,
\* both parses, and abort(400) before the try block
ReceiveLoc(t, R) ==
    /\ pc[t] = "idle"
    /\ \E r \in R :
          LET radius == ArgsGetFloat(r.qs, "radius", DefaultRadius)
              bidirectional ==
                  IsTrue(ArgsGet(r.qs, "bidirectional", DefaultBidirectional))
              p_a == parse_coords(r.coords_a)
              p_b == parse_coords(r.coords_b)
          IN  /\ args' = [args EXCEPT ![t] =
                             [endpoint |-> "locations", coords_a |-> r.coords_a,
                              coords_b |-> r.coords_b, qs |-> r.qs]]
              /\ locals' = [locals EXCEPT ![t].radius = radius,
                                          ![t].bidirectional = bidirectional,
                                          ![t].p_a = p_a, ![t].p_b = p_b]
              /\ IF InvalidCoords(p_a, p_b)
                 THEN /\ response' = [response EXCEPT ![t] =
                             [status |-> 400,
                              body |-> [description |->
                                           "Invalid coordinate format."]]]
                      /\ pc' = [pc EXCEPT ![t] = "done"]
                 ELSE /\ pc' = [pc EXCEPT ![t] = "get_engine"]
                      /\ UNCHANGED response
    /\ UNCHANGED <<corpus, _engine, engines, checked_out, payload, conn,
                   issued, acquired, obtained, failure, direct>>

\* get_engine, "if _engine is not None: return _engine"
GetEngineCached(t) ==
    /\ pc[t] = "get_engine"
    /\ _engine # NoEngine
    /\ locals' = [locals EXCEPT ![t].engine = _engine]
    /\ obtained' = [obtained EXCEPT ![t] = @ + 1]
    /\ pc' = [pc EXCEPT ![t] = "connect"]
    /\ UNCHANGED <<corpus, _engine, engines, checked_out, args, payload,
                   response, conn, issued, acquired, failure, direct>>

\* get_engine, the same test finding None and the URL read from the
\* environment
GetEngineMiss(t) ==
    /\ pc[t] = "get_engine"
    /\ _engine = NoEngine
    /\ DbUrl(environ) # ""
    /\ obtained' = [obtained EXCEPT ![t] = @ + 1]
    /\ pc' = [pc EXCEPT ![t] = "create_engine"]
    /\ UNCHANGED <<corpus, _engine, engines, checked_out, args, locals,
                   payload, response, conn, issued, acquired, failure, direct>>

\* get_engine, "if not db_url: raise RuntimeError"
GetEngineNoUrl(t) ==
    /\ pc[t] = "get_engine"
    /\ _engine = NoEngine
    /\ DbUrl(environ) = ""
    /\ obtained' = [obtained EXCEPT ![t] = @ + 1]
    /\ Raise(t, "RuntimeError", "engine")
    /\ UNCHANGED <<corpus, _engine, engines, args, locals, payload, issued,
                   acquired, direct>>

\* get_engine, "_engine = create_engine(db_url, ...)"
GetEngineCreate(t) ==
    /\ pc[t] = "create_engine"
    /\ CreateEngineOk(NormalizeUrl(DbUrl(environ)))
    /\ engines' = Append(engines, NormalizeUrl(DbUrl(environ)))
    /\ _engine' = Len(engines) + 1
    /\ pc' = [pc EXCEPT ![t] = "return_engine"]
    /\ UNCHANGED <<corpus, checked_out, args, locals, payload, response,
                   conn, issued, acquired, obtained, failure, direct>>

\* get_engine, create_engine raising
GetEngineCreateFails(t) ==
    /\ pc[t] = "create_engine"
    /\ ~CreateEngineOk(NormalizeUrl(DbUrl(environ)))
    /\ Raise(t, "ArgumentError", "engine")
    /\ UNCHANGED <<corpus, _engine, engines, args, locals, payload, issued,
                   acquired, obtained, direct>>

\* get_engine, the final "return _engine" reading the global
GetEngineReturn(t) ==
    /\ pc[t] = "return_engine"
    /\ locals' = [locals EXCEPT ![t].engine = _engine]
    /\ pc' = [pc EXCEPT ![t] = "connect"]
    /\ UNCHANGED <<corpus, _engine, engines, checked_out, args, payload,
                   response, conn, issued, acquired, obtained, failure, direct>>

\* "with engine.connect() as conn:" entered
Connect(t) ==
    /\ pc[t] = "connect"
    /\ conn' = [conn EXCEPT ![t] = @ + 1]
    /\ checked_out' = checked_out + 1
    /\ acquired' = [acquired EXCEPT ![t] = @ + 1]
    /\ pc' = [pc EXCEPT ![t] = "execute"]
    /\ UNCHANGED <<corpus, _engine, engines, args, locals, payload, response,
                   issued, obtained, failure, direct>>

\* engine.connect() raising
ConnectFails(t) ==
    /\ pc[t] = "connect"
    /\ Raise(t, "OperationalError", "connect")
    /\ UNCHANGED <<corpus, _engine, engines, args, locals, payload, issued,
                   acquired, obtained, direct>>

\* variant: :term_a and :term_b bound the wrong way round
TermQuerySwapped(term_a, term_b) ==
    Except(SelectTerm(annotations_terms, term_b),
           SelectTerm(annotations_terms, term_a))

\* the ids of the term statement before LIMIT
TermQuery(term_a, term_b) ==
    Except(SelectTerm(annotations_terms, term_a),
           SelectTerm(annotations_terms, term_b))

\* variant: the second ST_DWithin with a radius of its own, left at 0
SpatialQueryUnboundRadius(p1, p2, radius) ==
    Except(SelectNear(coordinates, p1, radius, metric),
           SelectNear(coordinates, p2, Fin(0), metric))

\* the ids of the spatial statement before LIMIT: x1,y1,z1 from p1,
\* x2,y2,z2 from p2, and the one :radius in both ST_DWithin calls
SpatialQuery(p1, p2, radius) ==
    Except(SelectNear(coordinates, p1, radius, metric),
           SelectNear(coordinates, p2, radius, metric))

\* dissociate_by_term: conn.execute and the row loop
ExecuteTerm(t) ==
    /\ pc[t] = "execute"
    /\ args[t].endpoint = "terms"
    /\ \E rows \in QueryResults(TermQuery(args[t].term_a, args[t].term_b)) :
          locals' = [locals EXCEPT ![t].study_ids = rows]
    /\ issued' = [issued EXCEPT ![t] = @ + 1]
    /\ pc' = [pc EXCEPT ![t] = "respond"]
    /\ UNCHANGED <<corpus, _engine, engines, checked_out, args, payload,
                   response, conn, acquired, obtained, failure, direct>>

\* the payload dict with its first direction
PayloadAB(a, ids) ==
    [coords_a |-> a.coords_a, coords_b |-> a.coords_b,
     radius |-> ArgsGetFloat(a.qs, "radius", DefaultRadius),
     direction_A_minus_B |->
        [from |-> a.coords_a, not |-> a.coords_b, count |-> Len(ids),
         study_ids |-> ids]]

\* payload["direction_B_minus_A"] = {...}
PayloadBA(pl, a, ids) ==
    pl @@ ("direction_B_minus_A" :>
              [from |-> a.coords_b, not |-> a.coords_a, count |-> Len(ids),
               study_ids |-> ids])

\* dissociate_by_location: the A -> B execute, its row loop and the payload
ExecuteAB(t) ==
    /\ pc[t] = "execute"
    /\ args[t].endpoint = "locations"
    /\ \E rows \in QueryResults(SpatialQuery(locals[t].p_a, locals[t].p_b,
                                             locals[t].radius)) :
          /\ locals' = [locals EXCEPT ![t].study_ids_ab = rows]
          /\ payload' = [payload EXCEPT ![t] = PayloadAB(args[t], rows)]
    /\ issued' = [issued EXCEPT ![t] = @ + 1]
    /\ pc' = [pc EXCEPT ![t] =
                 IF locals[t].bidirectional THEN "execute_ba" ELSE "respond"]
    /\ UNCHANGED <<corpus, _engine, engines, checked_out, args, response,
                   conn, acquired, obtained, failure, direct>>

\* dissociate_by_location: "if bidirectional:", the B -> A execute
ExecuteBA(t) ==
    /\ pc[t] = "execute_ba"
    /\ \E rows \in QueryResults(SpatialQuery(locals[t].p_b, locals[t].p_a,
                                             locals[t].radius)) :
          /\ locals' = [locals EXCEPT ![t].study_ids_ba = rows]
          /\ payload' = [payload EXCEPT ![t] = PayloadBA(@, args[t], rows)]
    /\ issued' = [issued EXCEPT ![t] = @ + 1]
    /\ pc' = [pc EXCEPT ![t] = "respond"]
    /\ UNCHANGED <<corpus, _engine, engines, checked_out, args, response,
                   conn, acquired, obtained, failure, direct>>

\* conn.execute or the row loop raising, in either handler
ExecuteFails(t) ==
    /\ pc[t] \in {"execute", "execute_ba"}
    /\ \E exc \in {"OperationalError", "ProgrammingError"} :
          Raise(t, exc, IF pc[t] = "execute_ba" THEN "query_ba"
                        ELSE IF args[t].endpoint = "terms" THEN "query"
                        ELSE "query_ab")
    /\ issued' = [issued EXCEPT ![t] = @ + 1]
    /\ UNCHANGED <<corpus, _engine, engines, args, locals, payload, acquired,
                   obtained, direct>>

\* the body of a 200 response
SuccessBody(a, l, pl) ==
    IF a.endpoint = "terms"
    THEN [term_a |-> a.term_a, term_b |-> a.term_b, study_ids |-> l.study_ids]
    ELSE pl

\* the with block left normally, then "return jsonify(...), 200"
Respond(t) ==
    /\ pc[t] = "respond"
    /\ conn' = [conn EXCEPT ![t] = @ - 1]
    /\ checked_out' = checked_out - 1
    /\ response' = [response EXCEPT ![t] =
                       [status |-> 200,
                        body |-> SuccessBody(args[t], locals[t], payload[t])]]
    /\ pc' = [pc EXCEPT ![t] = "done"]
    /\ UNCHANGED <<corpus, _engine, engines, args, locals, payload, issued,
                   acquired, obtained, failure, direct>>

\* one step of worker t on a request drawn from TR or LR
Handle(t, TR, LR) ==
    \/ ReceiveTerm(t, TR)
    \/ ReceiveLoc(t, LR)
    \/ GetEngineCached(t)
    \/ GetEngineMiss(t)
    \/ GetEngineNoUrl(t)
    \/ GetEngineCreate(t)
    \/ GetEngineCreateFails(t)
    \/ GetEngineReturn(t)
    \/ Connect(t)
    \/ ConnectFails(t)
    \/ ExecuteTerm(t)
    \/ ExecuteAB(t)
    \/ ExecuteBA(t)
    \/ ExecuteFails(t)
    \/ Respond(t)

Next == Handle(1, TermRequests, LocRequests)

Spec == Init /\ [][Next]_vars

\* ------------------------------------------------------------------------
\* Concurrent workers
\* ------------------------------------------------------------------------
ConcTermRequests == {[term_a |-> "fear", term_b |-> "reward"]}

ConcLocRequests ==
    [coords_a : {Tok_0_0_0, Tok_1_2_x}, coords_b : {Tok_10_0_0},
     qs : {[bidirectional |-> <<"t", "r", "u", "e">>]}]

\* NThreads workers of one freshly started process on the scenario corpus
InitConc ==
    /\ InitThreads
    /\ coords_str = <<>>
    /\ metric = "3D"
    /\ annotations_terms = ScenarioTerms
    /\ coordinates = ScenarioCoords
    /\ ColdEngine
    /\ environ.DATABASE_URL = ""

NextConc == \E t \in Threads : Handle(t, ConcTermRequests, ConcLocRequests)

SpecConc == InitConc /\ [][NextConc]_vars

\* ------------------------------------------------------------------------
\* parse_coords called directly
\* ------------------------------------------------------------------------
P_empty == <<>>
P_0 == <<"0">>
P_m52 == <<"-", "5", "2">>
P_26_0 == <<"2", "6", ".", "0">>
P_x == <<"x">>
P_nan == <<"n", "a", "n">>
P_minf == <<"-", "i", "n", "f">>

\* the strings between the separators of a token
PartStrings ==
    {P_empty, P_0, P_m52, P_26_0, P_x, P_nan, P_minf}

RECURSIVE Join(_)
\* '_'.join(parts)
Join(parts) ==
    IF Len(parts) = 1 THEN parts[1]
    ELSE parts[1] \o <<"_">> \o Join(Tail(parts))

\* every token of 1..most parts
ParseTokens(most) ==
    UNION {{Join(ps) : ps \in [1..n -> PartStrings]} : n \in 1..most}

InitParse ==
    /\ InitThreads
    /\ coords_str \in ParseTokens(MaxParts)
    /\ metric = "3D"
    /\ annotations_terms = ScenarioTerms
    /\ coordinates = ScenarioCoords
    /\ WarmEngine
    /\ DbUrl(environ) = PostgresUrl

\* parse_coords(coords_str) returning
ParseCoords ==
    /\ ~parsed.returned
    /\ parsed' = [returned |-> TRUE, value |-> parse_coords(coords_str)]
    /\ UNCHANGED <<corpus, _engine, engines, checked_out, pc, args, locals,
                   payload, response, conn, issued, acquired, obtained,
                   failure, coords_str>>

NextParse == ParseCoords

SpecParse == InitParse /\ [][NextParse]_vars

\* C4: parse_coords returns a triple exactly when the token has three
\* '_'-separated parts and float() reads each as a finite number; otherwise
\* it returns None.
C4_ParseIffThreeFinite ==
    parsed.returned =>
        ((parsed.value # None)
            <=> (/\ Len(Split(coords_str)) = 3
                 /\ \A i \in DOMAIN Split(coords_str) :
                       PyFloat(Split(coords_str)[i]).k = "fin"))

\* ------------------------------------------------------------------------
\* Properties
\* ------------------------------------------------------------------------
Ids(q) == {q[i] : i \in DOMAIN q}

Ok(t, endpoint) == args[t].endpoint = endpoint /\ response[t].status = 200

HasTerm(s, term) ==
    \E r \in annotations_terms : r.study_id = s /\ r.term = term

\* C1: every id the term endpoint returns has a row tagged term_a and no
\* row tagged term_b, no id is returned twice, and when at most 250 studies
\* qualify the returned ids are exactly those studies.
C1_TermDissociation ==
    \A t \in Threads :
        Ok(t, "terms") =>
            LET ids == response[t].body.study_ids
                D   == {s \in {r.study_id : r \in annotations_terms} :
                           /\ HasTerm(s, args[t].term_a)
                           /\ ~HasTerm(s, args[t].term_b)}
            IN  /\ \A i \in DOMAIN ids :
                      /\ HasTerm(ids[i], args[t].term_a)
                      /\ ~HasTerm(ids[i], args[t].term_b)
                /\ Cardinality(Ids(ids)) = Len(ids)
                /\ Cardinality(D) <= 250 => Ids(ids) = D

\* fear = {1,2,3}, reward = {2,3} answered with [1]
C1_Witness ==
    /\ annotations_terms = ScenarioTerms
    /\ Ok(1, "terms")
    /\ args[1].term_a = "fear"
    /\ args[1].term_b = "reward"
    /\ response[1].body.study_ids = <<1>>

\* the studies with a coordinate row within r of p
StudiesNear(p, r) ==
    {row.study_id : row \in {w \in coordinates : ST_DWithin(w, p, r, metric)}}

\* the ids of one direction all lie near from and not near away
Dissociates(dir, from, away, r) ==
    LET near == StudiesNear(from, r)
        far  == StudiesNear(away, r)
    IN  \A i \in DOMAIN dir.study_ids :
            dir.study_ids[i] \in near /\ dir.study_ids[i] \notin far

\* C2: every id of direction_A_minus_B has a coordinate row within the
\* request's radius of p_a and none within it of p_b, and every id of
\* direction_B_minus_A, when present, the converse, under the same radius.
C2_SpatialDissociation ==
    \A t \in Threads :
        Ok(t, "locations") =>
            LET body == response[t].body
                p_a  == locals[t].p_a
                p_b  == locals[t].p_b
            IN  /\ Dissociates(body.direction_A_minus_B, p_a, p_b, body.radius)
                /\ "direction_B_minus_A" \in DOMAIN body =>
                      Dissociates(body.direction_B_minus_A, p_b, p_a,
                                  body.radius)

\* a bidirectional answer with studies in both directions
C2_Witness ==
    /\ Ok(1, "locations")
    /\ "direction_B_minus_A" \in DOMAIN response[1].body
    /\ response[1].body.direction_A_minus_B.count >= 1
    /\ response[1].body.direction_B_minus_A.count >= 1
    /\ response[1].body.radius = Fin(50)

Capped(dir) == Len(dir.study_ids) <= 250 /\ dir.count = Len(dir.study_ids)

\* C3: every list of study ids in a 200 response has at most 250 entries,
\* and each direction's count is the length of its list.
C3_ResultCap ==
    \A t \in Threads :
        /\ Ok(t, "terms") => Len(response[t].body.study_ids) <= 250
        /\ Ok(t, "locations") =>
              /\ Capped(response[t].body.direction_A_minus_B)
              /\ "direction_B_minus_A" \in DOMAIN response[t].body =>
                    Capped(response[t].body.direction_B_minus_A)

\* more than 250 studies qualify and exactly 250 are returned
C3_Witness ==
    /\ Ok(1, "locations")
    /\ Cardinality(StudiesNear(locals[1].p_a, locals[1].radius)
                      \ StudiesNear(locals[1].p_b, locals[1].radius)) > 250
    /\ response[1].body.direction_A_minus_B.count = 250

\* C5: a spatial request one of whose tokens parse_coords rejected (p_a or
\* p_b is None) is answered 400 at once: no get_engine call, no connection,
\* no query.
C5_MalformedNoStorage ==
    \A t \in Threads :
        (/\ args[t].endpoint = "locations"
         /\ (locals[t].p_a = None \/ locals[t].p_b = None))
        => /\ pc[t] = "done"
           /\ response[t].status = 400
           /\ issued[t] = 0
           /\ acquired[t] = 0
           /\ obtained[t] = 0
           /\ conn[t] = 0

\* only coords_b is malformed, radius and bidirectional both given
C5_Witness ==
    /\ args[1].endpoint = "locations"
    /\ locals[1].p_a # None
    /\ locals[1].p_b = None
    /\ DOMAIN args[1].qs = {"radius", "bidirectional"}
    /\ response[1].status = 400

\* the spellings of "true" in any mix of cases
TrueSpellings ==
    {<<c1, c2, c3, c4>> : c1 \in {"t", "T"}, c2 \in {"r", "R"},
                          c3 \in {"u", "U"}, c4 \in {"e", "E"}}

AsksBidirectional(qs) ==
    "bidirectional" \in DOMAIN qs /\ qs["bidirectional"] \in TrueSpellings

\* C6: a 200 spatial response has direction_A_minus_B, has
\* direction_B_minus_A exactly when ?bidirectional= is "true" in any case,
\* and took two queries in that case and one otherwise.
C6_ResponseShape ==
    \A t \in Threads :
        Ok(t, "locations") =>
            /\ "direction_A_minus_B" \in DOMAIN response[t].body
            /\ "direction_B_minus_A" \in DOMAIN response[t].body
                  <=> AsksBidirectional(args[t].qs)
            /\ issued[t] = IF AsksBidirectional(args[t].qs) THEN 2 ELSE 1

\* ?bidirectional=TRUE answered with both directions
C6_Witness ==
    /\ Ok(1, "locations")
    /\ "bidirectional" \in DOMAIN args[1].qs
    /\ args[1].qs["bidirectional"] = <<"T", "R", "U", "E">>
    /\ "direction_B_minus_A" \in DOMAIN response[1].body
    /\ issued[1] = 2

\* queries sent by the time a request fails at stage
IssuedAt(stage) ==
    CASE stage \in {"engine", "connect"} -> 0
      [] stage \in {"query", "query_ab"} -> 1
      [] stage = "query_ba" -> 2

\* C7: a request that met a storage failure (engine, connection or query)
\* has ended with a 500 whose body is the error message alone, has sent no
\* query after the failing one, and holds no connection.
C7_FailureTerminal ==
    \A t \in Threads :
        failure[t] # "none" =>
            /\ pc[t] = "done"
            /\ response[t].status = 500
            /\ DOMAIN response[t].body = {"error"}
            /\ issued[t] = IssuedAt(failure[t])
            /\ acquired[t] = (IF failure[t] \in {"engine", "connect"} THEN 0 ELSE 1)

\* the B -> A query failed after A -> B had returned studies
C7_Witness ==
    /\ failure[1] = "query_ba"
    /\ payload[1].direction_A_minus_B.count >= 1
    /\ response[1].status = 500

Finished(t) == pc[t] \in {"idle", "done"}

\* C8: a request holds at most one connection, none once it has finished,
\* and no connection is checked out while no request is in flight.
C8_ConnectionScoped ==
    /\ \A t \in Threads : conn[t] <= 1 /\ (Finished(t) => conn[t] = 0)
    /\ (\A t \in Threads : Finished(t)) => checked_out = 0

\* one request answered 200 and another failed in its second query
C8_Witness ==
    /\ \A t \in Threads : pc[t] = "done"
    /\ \E t \in Threads : response[t].status = 200
    /\ \E t \in Threads : failure[t] = "query_ba"
    /\ checked_out = 0

Positive(r) == (r.k = "fin" /\ r.v > 0) \/ (r.k = "inf" /\ r.v > 0)

\* C9: the term endpoint with term_a = term_b returns no ids, and the
\* spatial endpoint with coords_a = coords_b and a positive radius returns
\* empty directions with count 0.
C9_SelfDissociationEmpty ==
    \A t \in Threads :
        /\ (Ok(t, "terms") /\ args[t].term_a = args[t].term_b)
              => response[t].body.study_ids = <<>>
        /\ (/\ Ok(t, "locations")
            /\ args[t].coords_a = args[t].coords_b
            /\ Positive(response[t].body.radius))
              => /\ response[t].body.direction_A_minus_B.study_ids = <<>>
                 /\ response[t].body.direction_A_minus_B.count = 0
                 /\ "direction_B_minus_A" \in DOMAIN response[t].body =>
                       /\ response[t].body.direction_B_minus_A.study_ids = <<>>
                       /\ response[t].body.direction_B_minus_A.count = 0

\* both directions asked at one point that has studies around it
C9_Witness ==
    /\ Ok(1, "locations")
    /\ args[1].coords_a = args[1].coords_b
    /\ "direction_B_minus_A" \in DOMAIN response[1].body
    /\ \E row \in coordinates :
          ST_DWithin(row, locals[1].p_a, locals[1].radius, metric)

\* C10: at most one engine handle is ever created, every get_engine call
\* that returned gave the same handle, and a call failing for want of a
\* URL leaves _engine unset.
C10_SingleEngine ==
    /\ Len(engines) <= 1
    /\ \A t1, t2 \in Threads :
          (locals[t1].engine # NoEngine /\ locals[t2].engine # NoEngine)
              => locals[t1].engine = locals[t2].engine
    /\ DbUrl(environ) = "" => _engine = NoEngine

====
